---- MODULE Spec2Model ----
(***************************************************************************)
(* Cook Tap: the recipe / order / station state machine of the game.       *)
(*                                                                         *)
(* The state is the fields of DishSystem.dishes, CookingStationManager,    *)
(* OrderSystem and CookTapGame; the actions are the events the browser     *)
(* delivers: key presses (InputHandler.handleKeyDown), clicks on the       *)
(* Start / Pause / Reset buttons and on order elements, the timers the     *)
(* code arms with setTimeout / setInterval, and the passage of time.       *)
(*                                                                         *)
(* Time.  The code reads Date.now() only in differences: now - createdAt   *)
(* (Order.getRemainingTime) and, through setTimeout, now - (time armed).   *)
(* Each such difference is kept as an `elapsed' counter in milliseconds;   *)
(* Tick advances all of them by TickSec seconds.  A counter stops at the   *)
(* value beyond which the code no longer distinguishes it (the time limit, *)
(* the timer delay).  A timer callback runs as an event of its own at or   *)
(* after its due time: the event loop gives no upper bound on the delay.   *)
(***************************************************************************)
EXTENDS Integers, Sequences, FiniteSets, TLC

\* ------------------------------------------------------------- bounds
\* Orders spawned in one run (Order ids are 1..MaxOrders).
MaxOrders == 2
\* Seconds of wall-clock time that pass in one Tick.
TickSec == 30

\* ------------------------------------------------------------ catalog
None == "none"

Step(a, st, t, k) == [action |-> a, station |-> st, time |-> t, key |-> k]
Ingr(i, req, steps) == [id |-> i, required |-> req, prepSteps |-> steps]

\* DishSystem.initializeIngredients: the key of each ingredient.
IngredientKey ==
  [beef_patty |-> "b", chicken_breast |-> "c", bacon |-> "n", lettuce |-> "l",
   tomato |-> "t", onion |-> "o", pickles |-> "p", mushrooms |-> "m",
   bell_pepper |-> "e", cheese |-> "h", mozzarella |-> "z", butter |-> "u",
   burger_bun |-> "j", pizza_dough |-> "d", pasta |-> "a", ketchup |-> "k",
   mustard |-> "y", mayo |-> "w", tomato_sauce |-> "s", salt |-> "i",
   pepper |-> "r", oregano |-> "g"]

\* DishSystem.initializeTools: the tool ids.
Tools == {"chop", "slice", "grill", "fry", "boil", "bake", "mix", "toss",
          "assemble", "plate"}

\* DishSystem.initializeCookingStations.  cookingSlots is as CookingStation's
\* constructor stores it (config.cookingSlots || 1).
StationDef ==
  [prep  |-> [allowedActions |-> {"chop", "slice", "mix", "toss", "assemble", "plate"},
              cookingSlots |-> 1],
   grill |-> [allowedActions |-> {"grill"}, cookingSlots |-> 3],
   fryer |-> [allowedActions |-> {"fry"}, cookingSlots |-> 2],
   stove |-> [allowedActions |-> {"boil", "bake"}, cookingSlots |-> 4]]

StationIds == DOMAIN StationDef

\* DishSystem.initializeDishes.  An absent station is None, an absent time 0.
DishDef ==
  [classic_burger |->
     [station |-> "prep", difficulty |-> 2,
      ingredients |->
        << Ingr("burger_bun", TRUE, << Step("slice", None, 0, "v") >>),
           Ingr("beef_patty", TRUE, << Step("grill", "grill", 3000, "q") >>),
           Ingr("lettuce", FALSE, << Step("chop", None, 0, "x") >>),
           Ingr("tomato", FALSE, << Step("slice", None, 0, "v") >>),
           Ingr("cheese", FALSE, << >>),
           Ingr("pickles", FALSE, << >>),
           Ingr("ketchup", FALSE, << >>),
           Ingr("mustard", FALSE, << >>) >>,
      finalSteps |-> << Step("assemble", None, 0, "["),
                        Step("plate", None, 0, "space") >>],
   margherita_pizza |->
     [station |-> "prep", difficulty |-> 3,
      ingredients |->
        << Ingr("pizza_dough", TRUE, << >>),
           Ingr("tomato_sauce", TRUE, << Step("mix", None, 0, ";") >>),
           Ingr("mozzarella", TRUE, << >>),
           Ingr("oregano", FALSE, << >>) >>,
      finalSteps |-> << Step("bake", "stove", 8000, "."),
                        Step("plate", None, 0, "space") >>],
   fried_chicken |->
     [station |-> "prep", difficulty |-> 2,
      ingredients |->
        << Ingr("chicken_breast", TRUE, << Step("fry", "fryer", 5000, "f") >>),
           Ingr("salt", TRUE, << >>),
           Ingr("pepper", TRUE, << >>) >>,
      finalSteps |-> << Step("plate", None, 0, "space") >>],
   caesar_salad |->
     [station |-> "prep", difficulty |-> 3,
      ingredients |->
        << Ingr("lettuce", TRUE, << Step("chop", None, 0, "x") >>),
           Ingr("chicken_breast", TRUE,
                << Step("grill", "grill", 4000, "q"),
                   Step("slice", None, 0, "v") >>),
           Ingr("cheese", FALSE, << >>),
           Ingr("mayo", FALSE, << >>) >>,
      finalSteps |-> << Step("toss", None, 0, "'"),
                        Step("plate", None, 0, "space") >>],
   pasta_marinara |->
     [station |-> "prep", difficulty |-> 2,
      ingredients |->
        << Ingr("pasta", TRUE, << Step("boil", "stove", 6000, ",") >>),
           Ingr("tomato_sauce", TRUE, << >>),
           Ingr("oregano", FALSE, << >>),
           Ingr("cheese", FALSE, << >>) >>,
      finalSteps |-> << Step("mix", None, 0, ";"),
                        Step("plate", None, 0, "space") >>]]

DishIds == DOMAIN DishDef

\* dish.ingredients.find(ing => ing.id === id): its index, 0 when absent.
IngIndex(d, id) ==
  LET ings == DishDef[d].ingredients
      hits == {i \in 1..Len(ings) : ings[i].id = id}
  IN IF hits = {} THEN 0 ELSE CHOOSE i \in hits : \A j \in hits : i <= j


\* getDishKeyMappings: the entries in the order the code sets them; a later
\* entry for the same key replaces an earlier one (Map.set).
RECURSIVE IngredientEntries(_, _)
IngredientEntries(ings, i) ==
  IF i > Len(ings) THEN << >>
  ELSE << [key |-> IngredientKey[ings[i].id], type |-> "ingredient", id |-> ings[i].id] >>
       \o [j \in 1..Len(ings[i].prepSteps) |->
             [key |-> ings[i].prepSteps[j].key, type |-> "tool",
              id |-> ings[i].prepSteps[j].action]]
       \o IngredientEntries(ings, i + 1)

FinalEntries(d) ==
  LET fs == DishDef[d].finalSteps
      keep == SelectSeq(fs, LAMBDA s : s.key # "space")
  IN [j \in 1..Len(keep) |-> [key |-> keep[j].key, type |-> "tool", id |-> keep[j].action]]

getDishKeyMappings(d) == IngredientEntries(DishDef[d].ingredients, 1) \o FinalEntries(d)

\* keyMappings.get(key): the last entry set for the key, or one of type None.
KeyMapping(d, key) ==
  LET es == getDishKeyMappings(d)
      hits == {i \in 1..Len(es) : es[i].key = key}
  IN IF hits = {} THEN [key |-> key, type |-> None, id |-> None]
     ELSE es[CHOOSE i \in hits : \A j \in hits : j <= i]

\* ------------------------------------------------------------- state
VARIABLES
  activeOrders,     \* OrderSystem.activeOrders: the live orders, in insertion order
  completedOrders,  \* OrderSystem.completedOrders
  totalScore,       \* OrderSystem.totalScore
  ordersCompleted,  \* OrderSystem.ordersCompleted
  perfectOrders,    \* OrderSystem.perfectOrders
  osRunning,        \* OrderSystem.isRunning
  spawnTimer,       \* OrderSystem.orderSpawnTimer: -1 (null), else ms since the interval last fired
  nextId,           \* the id the next Order gets (ids are never reused)
  orderTimers,      \* ids of the orders whose updateTimer callback is pending
  dishes,           \* DishSystem.dishes: the mutable fields of each dish
  stations,         \* CookingStation.currentItems of each station: slot -> item
  cookTimers,       \* pending addItem timeouts: [station, slot, elapsed, time]
  activeStation,    \* CookingStationManager.activeStation (its id, or None)
  currentDish,      \* CookingStationManager.currentDish
  isRunning,        \* CookTapGame.isRunning
  isListening       \* InputHandler.isListening

vars == << activeOrders, completedOrders, totalScore, ordersCompleted, perfectOrders,
           osRunning, spawnTimer, nextId, orderTimers, dishes, stations, cookTimers,
           activeStation, currentDish, isRunning, isListening >>

orderVars == << activeOrders, completedOrders, totalScore, ordersCompleted,
                perfectOrders, nextId, orderTimers >>
runVars == << osRunning, spawnTimer, isRunning, isListening >>
stationVars == << stations, cookTimers, activeStation, currentDish >>

EmptyMap == [x \in {} |-> TRUE]
MapSet(m, k, v) == [x \in (DOMAIN m) \cup {k} |-> IF x = k THEN v ELSE m[x]]
MapDel(m, k) == [x \in (DOMAIN m) \ {k} |-> m[x]]
Min(a, b) == IF a < b THEN a ELSE b
Max(a, b) == IF a > b THEN a ELSE b

\* ------------------------------------------------------- DishSystem
\* addDish: the mutable part of a dish as constructed.
FreshDish ==
  [currentIngredients |-> {}, ingredientStates |-> EmptyMap,
   finalStepsProgress |-> 0, isComplete |-> FALSE]

\* An addIngredientToDish without the already-added test: adding again starts
\* the ingredient's progress over.
addIngredientToDishAgain(ds, d, id) ==
  LET i == IngIndex(d, id) IN
  IF i = 0 THEN [ok |-> FALSE, dish |-> ds]
  ELSE [ok |-> TRUE,
        dish |-> [ds EXCEPT
          !.currentIngredients = @ \cup {id},
          !.ingredientStates = MapSet(@, id,
             [prepStepsCompleted |-> 0,
              isReady |-> Len(DishDef[d].ingredients[i].prepSteps) = 0])]]

\* addIngredientToDish on dish state ds of recipe d: [ok, dish].
addIngredientToDish(ds, d, id) ==
  LET i == IngIndex(d, id) IN
  IF i = 0 THEN [ok |-> FALSE, dish |-> ds]
  ELSE IF id \in ds.currentIngredients THEN [ok |-> FALSE, dish |-> ds]
  ELSE [ok |-> TRUE,
        dish |-> [ds EXCEPT
          !.currentIngredients = @ \cup {id},
          !.ingredientStates = MapSet(@, id,
             [prepStepsCompleted |-> 0,
              isReady |-> Len(DishDef[d].ingredients[i].prepSteps) = 0])]]

\* A first loop that keeps the last match in place of the first.
PrepTargetLast(ds, d, tool) ==
  LET ings == DishDef[d].ingredients
      hits == {i \in 1..Len(ings) :
                 /\ ings[i].id \in ds.currentIngredients
                 /\ ings[i].id \in DOMAIN ds.ingredientStates
                 /\ ~ds.ingredientStates[ings[i].id].isReady
                 /\ ds.ingredientStates[ings[i].id].prepStepsCompleted < Len(ings[i].prepSteps)
                 /\ ings[i].prepSteps[ds.ingredientStates[ings[i].id].prepStepsCompleted + 1].action = tool}
  IN IF hits = {} THEN 0 ELSE CHOOSE i \in hits : \A j \in hits : j <= i

\* useToolOnDish, first loop: the index of the first added, not ready ingredient
\* whose current prep step is the tool; 0 when there is none.
PrepTarget(ds, d, tool) ==
  LET ings == DishDef[d].ingredients
      hits == {i \in 1..Len(ings) :
                 /\ ings[i].id \in ds.currentIngredients
                 /\ ings[i].id \in DOMAIN ds.ingredientStates
                 /\ ~ds.ingredientStates[ings[i].id].isReady
                 /\ ds.ingredientStates[ings[i].id].prepStepsCompleted < Len(ings[i].prepSteps)
                 /\ ings[i].prepSteps[ds.ingredientStates[ings[i].id].prepStepsCompleted + 1].action = tool}
  IN IF hits = {} THEN 0 ELSE CHOOSE i \in hits : \A j \in hits : i <= j

\* The ingredient's state after one more prep step.
AdvancePrep(st, nSteps) ==
  [prepStepsCompleted |-> st.prepStepsCompleted + 1,
   isReady |-> IF st.prepStepsCompleted + 1 >= nSteps THEN TRUE ELSE st.isReady]

\* A final step that marks the dish complete one step late (> for >=).
AdvanceFinalLate(ds, nFinal) ==
  [ds EXCEPT !.finalStepsProgress = @ + 1,
             !.isComplete = IF ds.finalStepsProgress + 1 > nFinal THEN TRUE ELSE @]

\* The dish after one more final step.
AdvanceFinal(ds, nFinal) ==
  [ds EXCEPT !.finalStepsProgress = @ + 1,
             !.isComplete = IF ds.finalStepsProgress + 1 >= nFinal THEN TRUE ELSE @]

\* A useToolOnDish whose first loop has no break: every matching ingredient
\* advances.
useToolOnDishNoBreak(ds, d, tool) ==
  LET ings == DishDef[d].ingredients
      fs == DishDef[d].finalSteps
      hits == {ings[i].id : i \in {k \in 1..Len(ings) :
                 /\ ings[k].id \in ds.currentIngredients
                 /\ ~ds.ingredientStates[ings[k].id].isReady
                 /\ ds.ingredientStates[ings[k].id].prepStepsCompleted < Len(ings[k].prepSteps)
                 /\ ings[k].prepSteps[ds.ingredientStates[ings[k].id].prepStepsCompleted + 1].action = tool}}
  IN IF hits # {}
     THEN [ok |-> TRUE,
           dish |-> [ds EXCEPT !.ingredientStates =
              [x \in DOMAIN @ |->
                 IF x \in hits
                 THEN AdvancePrep(@[x], Len(DishDef[d].ingredients[IngIndex(d, x)].prepSteps))
                 ELSE @[x]]]]
     ELSE IF /\ ds.finalStepsProgress < Len(fs)
             /\ fs[ds.finalStepsProgress + 1].action = tool
          THEN [ok |-> TRUE, dish |-> AdvanceFinal(ds, Len(fs))]
          ELSE [ok |-> FALSE, dish |-> ds]

\* useToolOnDish: [ok, dish].
useToolOnDish(ds, d, tool) ==
  LET ings == DishDef[d].ingredients
      fs == DishDef[d].finalSteps
      i == PrepTarget(ds, d, tool)
  IN IF i # 0
     THEN [ok |-> TRUE,
           dish |-> [ds EXCEPT !.ingredientStates[ings[i].id] =
                                  AdvancePrep(@, Len(ings[i].prepSteps))]]
     ELSE IF /\ ds.finalStepsProgress < Len(fs)
             /\ fs[ds.finalStepsProgress + 1].action = tool
          THEN [ok |-> TRUE, dish |-> AdvanceFinal(ds, Len(fs))]
          ELSE [ok |-> FALSE, dish |-> ds]

\* An isDishValid that asks for every ingredient, required or not.
isDishValidAll(ds, d) ==
  LET ings == DishDef[d].ingredients IN
  \A i \in 1..Len(ings) :
     /\ ings[i].id \in ds.currentIngredients
     /\ ings[i].id \in DOMAIN ds.ingredientStates
     /\ ds.ingredientStates[ings[i].id].isReady

\* isDishValid: every required ingredient is added and ready.
isDishValid(ds, d) ==
  LET ings == DishDef[d].ingredients IN
  \A i \in 1..Len(ings) :
     ings[i].required =>
        /\ ings[i].id \in ds.currentIngredients
        /\ ings[i].id \in DOMAIN ds.ingredientStates
        /\ ds.ingredientStates[ings[i].id].isReady

\* A resetDish that clears the added set and leaves the progress mapping.
resetDishKeepStates(ds) ==
  [ds EXCEPT !.currentIngredients = {}, !.finalStepsProgress = 0, !.isComplete = FALSE]

\* A resetDish that forgets the isComplete flag.
resetDishKeepComplete(ds) ==
  [ds EXCEPT !.currentIngredients = {}, !.ingredientStates = EmptyMap,
             !.finalStepsProgress = 0]

\* resetDish.
resetDish(ds) ==
  [ds EXCEPT !.currentIngredients = {}, !.ingredientStates = EmptyMap,
             !.finalStepsProgress = 0, !.isComplete = FALSE]


\* -------------------------------------------- CookingStationManager
\* A getNextAvailableSlot that hands out slot 0 of a full station.
getNextAvailableSlotReuse(items, st) ==
  LET free == {i \in 0..(StationDef[st].cookingSlots - 1) : i \notin DOMAIN items}
  IN IF free = {} THEN 0 ELSE CHOOSE i \in free : \A j \in free : i <= j

\* A getNextAvailableSlot that scans from the top: the highest free slot.
getNextAvailableSlotHighest(items, st) ==
  LET free == {i \in 0..(StationDef[st].cookingSlots - 1) : i \notin DOMAIN items}
  IN IF free = {} THEN -1 ELSE CHOOSE i \in free : \A j \in free : i >= j

\* getNextAvailableSlot: the lowest free slot index of station st, -1 when full.
getNextAvailableSlot(items, st) ==
  LET free == {i \in 0..(StationDef[st].cookingSlots - 1) : i \notin DOMAIN items}
  IN IF free = {} THEN -1 ELSE CHOOSE i \in free : \A j \in free : i <= j

\* handleCookingAction: the cooking time of the first prep step of the
\* ingredient (in dish d) whose action is the tool; 3000 by default.
CookingTime(d, ingredient, action) ==
  LET i == IngIndex(d, ingredient) IN
  IF i = 0 THEN 3000
  ELSE LET steps == DishDef[d].ingredients[i].prepSteps
           hits == {j \in 1..Len(steps) : steps[j].action = action}
       IN IF hits = {} THEN 3000
          ELSE LET j == CHOOSE j \in hits : \A k \in hits : j <= k
               IN IF steps[j].time # 0 THEN steps[j].time ELSE 3000

\* The item addItem stores.  forDish is not a field of the code's item: it
\* records currentDish at submission, and no action reads it.
NewItem(action, ingredient, cookingTime, d) ==
  [action |-> action, ingredient |-> ingredient, cookingTime |-> cookingTime,
   elapsed |-> 0, isReady |-> FALSE, forDish |-> d]

\* CookingStation.addItem on (stations, cookTimers): the item is stored in the
\* slot and a timeout of cookingTime is armed for the slot index.
addItem(stns, timers, st, slot, item) ==
  IF slot >= StationDef[st].cookingSlots
  THEN [ok |-> FALSE, stations |-> stns, cookTimers |-> timers]
  ELSE [ok |-> TRUE,
        stations |-> [stns EXCEPT ![st] = MapSet(@, slot, item)],
        cookTimers |-> timers \cup
           {[station |-> st, slot |-> slot, elapsed |-> 0, time |-> item.cookingTime]}]

\* handleCookingAction(action, ingredient) with activeStation actSt and
\* currentDish curDish: [ok, stations, cookTimers].
handleCookingAction(stns, timers, actSt, curDish, action, ingredient) ==
  LET same == [ok |-> FALSE, stations |-> stns, cookTimers |-> timers] IN
  IF actSt = None \/ curDish \notin DishIds THEN same
  ELSE IF action \notin StationDef[actSt].allowedActions THEN same
  ELSE IF StationDef[actSt].cookingSlots > 1
       THEN LET slot == getNextAvailableSlot(stns[actSt], actSt) IN
            IF slot = -1 THEN same
            ELSE addItem(stns, timers, actSt, slot,
                         NewItem(action, ingredient,
                                 CookingTime(curDish, ingredient, action), curDish))
       ELSE [ok |-> TRUE, stations |-> stns, cookTimers |-> timers]

\* getReadyItems: the (station, slot) pairs whose item is ready.
getReadyItems(stns) ==
  {p \in StationIds \X (0..3) : p[2] \in DOMAIN stns[p[1]] /\ stns[p[1]][p[2]].isReady}

\* A removeCookedItem without the readiness test.
removeCookedItemAnyState(stns, st, slot) ==
  IF slot \in DOMAIN stns[st]
  THEN [stns EXCEPT ![st] = MapDel(@, slot)]
  ELSE stns

\* removeCookedItem / removeItem: the slot is emptied when its item is ready.
removeCookedItem(stns, st, slot) ==
  IF slot \in DOMAIN stns[st] /\ stns[st][slot].isReady
  THEN [stns EXCEPT ![st] = MapDel(@, slot)]
  ELSE stns

\* clearCurrentDish: the new (activeStation, currentDish).  The stations'
\* currentItems are not touched.
clearCurrentDish == [activeStation |-> None, currentDish |-> None]

\* setActiveDish(dishId, stationId): the new (activeStation, currentDish);
\* stationId None stands for the default argument null.
setActiveDish(actSt, d, stationId) ==
  LET target == IF stationId # None THEN stationId ELSE DishDef[d].station IN
  IF d \notin DishIds THEN [activeStation |-> actSt, currentDish |-> d]
  ELSE IF target \notin StationIds THEN [activeStation |-> actSt, currentDish |-> d]
  ELSE [activeStation |-> target, currentDish |-> d]

\* ------------------------------------------------------ OrderSystem
maxActiveOrders == 5
orderSpawnRate == 10000
baseTime == 45
\* Math.random() * 20 in spawnOrder, in seconds: the values drawn here.
Jitters == {15}

\* new Order(dishId, dishName, timeLimit): timeLimit in seconds.
NewOrder(id, d, timeLimit) ==
  [id |-> id, dishId |-> d, timeLimit |-> timeLimit * 1000, elapsed |-> 0,
   isComplete |-> FALSE, isActive |-> FALSE, rating |-> None]

\* A getRemainingTime that rounds down (Math.floor in place of Math.ceil).
getRemainingTimeFloor(o) == Max(0, o.timeLimit - o.elapsed) \div 1000

\* Order.getRemainingTime: ceil(max(0, timeLimit - elapsed) / 1000).
getRemainingTime(o) == (Max(0, o.timeLimit - o.elapsed) + 999) \div 1000

\* The index in activeOrders of the order with this id, 0 when absent
\* (activeOrders.get).
OrderIndex(orders, id) ==
  LET hits == {i \in 1..Len(orders) : orders[i].id = id}
  IN IF hits = {} THEN 0 ELSE CHOOSE i \in hits : TRUE

\* getActiveOrder: the index of the first order with isActive, 0 when none.
getActiveOrder(orders) ==
  LET hits == {i \in 1..Len(orders) : orders[i].isActive}
  IN IF hits = {} THEN 0 ELSE CHOOSE i \in hits : \A j \in hits : i <= j

\* activeOrders.delete(id).
DeleteOrder(orders, id) == SelectSeq(orders, LAMBDA o : o.id # id)

\* A selectOrder that leaves the previous active order selected.
selectOrderKeepPrevious(orders, id) ==
  [orders EXCEPT ![OrderIndex(orders, id)].isActive = TRUE]

\* OrderSystem.selectOrder: the previous active order (the first found) is
\* deselected, the target selected.  The id is one of activeOrders.
selectOrder(orders, id) ==
  LET prev == getActiveOrder(orders)
      o1 == IF prev # 0 THEN [orders EXCEPT ![prev].isActive = FALSE] ELSE orders
  IN [o1 EXCEPT ![OrderIndex(orders, id)].isActive = TRUE]

\* A rating whose upper comparisons are not strict (>= in place of >).
RateInclusive(remaining, timeLimit, dishValid) ==
  IF ~dishValid THEN [rating |-> "bad", score |-> 0]
  ELSE IF 4 * remaining * 1000 >= 3 * timeLimit THEN [rating |-> "perfect", score |-> 100]
  ELSE IF 4 * remaining * 1000 >= timeLimit THEN [rating |-> "good", score |-> 60]
  ELSE IF remaining > 0 THEN [rating |-> "average", score |-> 30]
  ELSE [rating |-> "bad", score |-> 0]

\* completeOrder: the rating and score of an order with this remaining time
\* (s) and time limit (ms).  timeRatio = remainingTime / (timeLimit / 1000).
Rate(remaining, timeLimit, dishValid) ==
  IF ~dishValid THEN [rating |-> "bad", score |-> 0]
  ELSE IF 4 * remaining * 1000 > 3 * timeLimit THEN [rating |-> "perfect", score |-> 100]
  ELSE IF 4 * remaining * 1000 > timeLimit THEN [rating |-> "good", score |-> 60]
  ELSE IF remaining > 0 THEN [rating |-> "average", score |-> 30]
  ELSE [rating |-> "bad", score |-> 0]

\* Order.complete(rating), as the record completedOrders keeps.  The time since
\* the order's creation is dropped: nothing reads it once the order is complete.
Completed(o, rating) ==
  [id |-> o.id, dishId |-> o.dishId, timeLimit |-> o.timeLimit,
   isComplete |-> TRUE, isActive |-> o.isActive, rating |-> rating]

\* completeOrder(orderId, dishValid): the order system's part of the state.
completeOrder(id, dishValid) ==
  LET i == OrderIndex(activeOrders, id) IN
  IF i = 0
  THEN UNCHANGED << activeOrders, completedOrders, totalScore, ordersCompleted, perfectOrders >>
  ELSE LET o == activeOrders[i]
           r == Rate(getRemainingTime(o), o.timeLimit, dishValid)
       IN /\ completedOrders' = Append(completedOrders, Completed(o, r.rating))
          /\ totalScore' = totalScore + r.score
          /\ ordersCompleted' = ordersCompleted + 1
          /\ perfectOrders' = IF r.rating = "perfect" THEN perfectOrders + 1 ELSE perfectOrders
          /\ activeOrders' = DeleteOrder(activeOrders, id)

\* An expireOrder that records the order but leaves it among the live orders.
expireOrderKeepLive(id) ==
  LET i == OrderIndex(activeOrders, id) IN
  IF i = 0
  THEN UNCHANGED << activeOrders, completedOrders, totalScore, ordersCompleted, perfectOrders >>
  ELSE /\ completedOrders' = Append(completedOrders, Completed(activeOrders[i], "failed"))
       /\ UNCHANGED << activeOrders, totalScore, ordersCompleted, perfectOrders >>

\* expireOrder(orderId).
expireOrder(id) ==
  LET i == OrderIndex(activeOrders, id) IN
  IF i = 0
  THEN UNCHANGED << activeOrders, completedOrders, totalScore, ordersCompleted, perfectOrders >>
  ELSE /\ completedOrders' = Append(completedOrders, Completed(activeOrders[i], "failed"))
       /\ activeOrders' = DeleteOrder(activeOrders, id)
       /\ UNCHANGED << totalScore, ordersCompleted, perfectOrders >>


\* A spawnOrder without the capacity test.
spawnOrderNoCap(pool, cap) ==
  /\ nextId <= cap
  /\ \E d \in pool, j \in Jitters :
       activeOrders' = Append(activeOrders,
          NewOrder(nextId, d, baseTime + DishDef[d].difficulty * 10 + j))
  /\ nextId' = nextId + 1
  /\ orderTimers' = orderTimers \cup {nextId}

\* spawnOrder: a dish of the pool (Math.random over getAllDishes) and a jitter.
\* At most cap orders are spawned in a run.
spawnOrder(pool, cap) ==
  IF Len(activeOrders) >= maxActiveOrders
  THEN UNCHANGED << activeOrders, nextId, orderTimers >>
  ELSE /\ nextId <= cap
       /\ \E d \in pool, j \in Jitters :
            activeOrders' = Append(activeOrders,
               NewOrder(nextId, d, baseTime + DishDef[d].difficulty * 10 + j))
       /\ nextId' = nextId + 1
       /\ orderTimers' = orderTimers \cup {nextId}

\* ------------------------------------------------------ CookTapGame
\* useTool, the loop after a successful useToolOnDish: the index of the first
\* added, not ready ingredient whose last completed prep step is the tool and
\* names a station other than prep; 0 when there is none.
CookTarget(ds, d, tool) ==
  LET ings == DishDef[d].ingredients
      hits == {i \in 1..Len(ings) :
                 /\ ings[i].id \in ds.currentIngredients
                 /\ ings[i].id \in DOMAIN ds.ingredientStates
                 /\ ~ds.ingredientStates[ings[i].id].isReady
                 /\ LET k == ds.ingredientStates[ings[i].id].prepStepsCompleted IN
                    /\ k >= 1
                    /\ k <= Len(ings[i].prepSteps)
                    /\ ings[i].prepSteps[k].action = tool
                    /\ ings[i].prepSteps[k].station # None
                    /\ ings[i].prepSteps[k].station # "prep"}
  IN IF hits = {} THEN 0 ELSE CHOOSE i \in hits : \A j \in hits : i <= j

\* CookTapGame.addIngredient(dishId, ingredientId).
addIngredient(d, id) ==
  LET r == addIngredientToDish(dishes[d], d, id) IN
  /\ dishes' = [dishes EXCEPT ![d] = r.dish]
  /\ UNCHANGED << orderVars, runVars, stationVars >>

\* A useTool whose station handling does not depend on useToolOnDish's result.
useToolIgnoreResult(d, tool) ==
  LET r == useToolOnDish(dishes[d], d, tool)
      i == CookTarget(r.dish, d, tool)
  IN /\ dishes' = [dishes EXCEPT ![d] = r.dish]
     /\ IF i # 0
        THEN LET ing == DishDef[d].ingredients[i]
                 step == ing.prepSteps[r.dish.ingredientStates[ing.id].prepStepsCompleted]
                 sa == setActiveDish(activeStation, d, step.station)
                 h == handleCookingAction(stations, cookTimers, sa.activeStation,
                                          sa.currentDish, tool, ing.id)
             IN /\ activeStation' = sa.activeStation
                /\ currentDish' = sa.currentDish
                /\ stations' = h.stations
                /\ cookTimers' = h.cookTimers
        ELSE UNCHANGED stationVars
     /\ UNCHANGED << orderVars, runVars >>

\* CookTapGame.useTool(dishId, toolId).
useTool(d, tool) ==
  LET r == useToolOnDish(dishes[d], d, tool)
      i == CookTarget(r.dish, d, tool)
  IN /\ dishes' = [dishes EXCEPT ![d] = r.dish]
     /\ IF r.ok /\ i # 0
        THEN LET ing == DishDef[d].ingredients[i]
                 step == ing.prepSteps[r.dish.ingredientStates[ing.id].prepStepsCompleted]
                 sa == setActiveDish(activeStation, d, step.station)
                 h == handleCookingAction(stations, cookTimers, sa.activeStation,
                                          sa.currentDish, tool, ing.id)
             IN /\ activeStation' = sa.activeStation
                /\ currentDish' = sa.currentDish
                /\ stations' = h.stations
                /\ cookTimers' = h.cookTimers
        ELSE UNCHANGED stationVars
     /\ UNCHANGED << orderVars, runVars >>

\* A game-level selectOrder that starts the target's dish afresh.
gameSelectOrderFreshDish(id) ==
  IF OrderIndex(activeOrders, id) = 0
  THEN UNCHANGED << orderVars, runVars, stationVars, dishes >>
  ELSE LET d == activeOrders[OrderIndex(activeOrders, id)].dishId
           sa == setActiveDish(activeStation, d, None)
       IN /\ activeOrders' = selectOrder(activeOrders, id)
          /\ activeStation' = sa.activeStation
          /\ currentDish' = sa.currentDish
          /\ dishes' = [dishes EXCEPT ![d] = resetDish(@)]
          /\ UNCHANGED << completedOrders, totalScore, ordersCompleted, perfectOrders,
                          nextId, orderTimers, runVars, stations, cookTimers >>

\* CookTapGame.selectOrder(orderId).
gameSelectOrder(id) ==
  IF OrderIndex(activeOrders, id) = 0
  THEN UNCHANGED << orderVars, runVars, stationVars, dishes >>
  ELSE LET sa == setActiveDish(activeStation,
                               activeOrders[OrderIndex(activeOrders, id)].dishId, None)
       IN /\ activeOrders' = selectOrder(activeOrders, id)
          /\ activeStation' = sa.activeStation
          /\ currentDish' = sa.currentDish
          /\ UNCHANGED << completedOrders, totalScore, ordersCompleted, perfectOrders,
                          nextId, orderTimers, runVars, stations, cookTimers, dishes >>

\* A serveDish that also asks for the final steps to be complete.
serveDishNeedsComplete ==
  LET a == getActiveOrder(activeOrders) IN
  IF \/ a = 0
     \/ ~isDishValid(dishes[activeOrders[a].dishId], activeOrders[a].dishId)
     \/ ~dishes[activeOrders[a].dishId].isComplete
  THEN UNCHANGED << orderVars, runVars, stationVars, dishes >>
  ELSE LET o == activeOrders[a] IN
       /\ completeOrder(o.id, TRUE)
       /\ dishes' = [dishes EXCEPT ![o.dishId] = resetDish(@)]
       /\ activeStation' = clearCurrentDish.activeStation
       /\ currentDish' = clearCurrentDish.currentDish
       /\ UNCHANGED << nextId, orderTimers, runVars, stations, cookTimers >>

\* CookTapGame.serveDish.
serveDish ==
  LET a == getActiveOrder(activeOrders) IN
  IF a = 0 \/ ~isDishValid(dishes[activeOrders[a].dishId], activeOrders[a].dishId)
  THEN UNCHANGED << orderVars, runVars, stationVars, dishes >>
  ELSE LET o == activeOrders[a] IN
       /\ completeOrder(o.id, TRUE)
       /\ dishes' = [dishes EXCEPT ![o.dishId] = resetDish(@)]
       /\ activeStation' = clearCurrentDish.activeStation
       /\ currentDish' = clearCurrentDish.currentDish
       /\ UNCHANGED << nextId, orderTimers, runVars, stations, cookTimers >>

\* A cancelCurrentDish that puts every cooking job back to the start of its
\* cooking.
cancelCurrentDishRestartJobs ==
  LET a == getActiveOrder(activeOrders) IN
  IF a = 0
  THEN UNCHANGED << orderVars, runVars, stationVars, dishes >>
  ELSE /\ dishes' = [dishes EXCEPT ![activeOrders[a].dishId] = resetDish(@)]
       /\ activeStation' = clearCurrentDish.activeStation
       /\ currentDish' = clearCurrentDish.currentDish
       /\ activeOrders' = [activeOrders EXCEPT ![a].isActive = FALSE]
       /\ stations' = [st \in StationIds |-> [k \in DOMAIN stations[st] |->
             [stations[st][k] EXCEPT !.isReady = FALSE]]]
       /\ UNCHANGED << completedOrders, totalScore, ordersCompleted, perfectOrders,
                       nextId, orderTimers, runVars, cookTimers >>

\* CookTapGame.cancelCurrentDish.
cancelCurrentDish ==
  LET a == getActiveOrder(activeOrders) IN
  IF a = 0
  THEN UNCHANGED << orderVars, runVars, stationVars, dishes >>
  ELSE /\ dishes' = [dishes EXCEPT ![activeOrders[a].dishId] = resetDish(@)]
       /\ activeStation' = clearCurrentDish.activeStation
       /\ currentDish' = clearCurrentDish.currentDish
       /\ activeOrders' = [activeOrders EXCEPT ![a].isActive = FALSE]
       /\ UNCHANGED << completedOrders, totalScore, ordersCompleted, perfectOrders,
                       nextId, orderTimers, runVars, stations, cookTimers >>

\* retrieveCookedItems: the dish after the ready items' ingredients are marked.
MarkReady(ds, ingredients) ==
  [ds EXCEPT !.ingredientStates =
     [x \in DOMAIN @ |-> IF x \in ingredients THEN [@[x] EXCEPT !.isReady = TRUE] ELSE @[x]]]

\* The stations with every ready item removed (removeCookedItem on each).
RemoveReady(stns) ==
  [st \in StationIds |-> [k \in {k \in DOMAIN stns[st] : ~stns[st][k].isReady} |-> stns[st][k]]]

\* CookTapGame.retrieveCookedItems.
retrieveCookedItems ==
  LET ready == getReadyItems(stations)
      a == getActiveOrder(activeOrders)
  IN IF ready = {} \/ a = 0
     THEN UNCHANGED << orderVars, runVars, stationVars, dishes >>
     ELSE LET d == activeOrders[a].dishId
              sa == setActiveDish(activeStation, d, "prep")
          IN /\ stations' = RemoveReady(stations)
             /\ dishes' = [dishes EXCEPT ![d] =
                  MarkReady(@, {stations[p[1]][p[2]].ingredient : p \in ready})]
             /\ activeStation' = sa.activeStation
             /\ currentDish' = sa.currentDish
             /\ UNCHANGED << orderVars, runVars, cookTimers >>


\* ----------------------------------------------------------- events
\* After construction: DishSystem's constructor, CookingStationManager's,
\* OrderSystem's and CookTapGame's.
Init ==
  /\ activeOrders = << >>
  /\ completedOrders = << >>
  /\ totalScore = 0
  /\ ordersCompleted = 0
  /\ perfectOrders = 0
  /\ osRunning = FALSE
  /\ spawnTimer = -1
  /\ nextId = 1
  /\ orderTimers = {}
  /\ dishes = [d \in DishIds |-> FreshDish]
  /\ stations = [st \in StationIds |-> EmptyMap]
  /\ cookTimers = {}
  /\ activeStation = None
  /\ currentDish = None
  /\ isRunning = FALSE
  /\ isListening = FALSE

\* The Start / Resume button: startGame, OrderSystem.start, startSpawning.
ClickStart(pool, cap) ==
  /\ ~isRunning
  /\ isRunning' = TRUE
  /\ osRunning' = TRUE
  /\ spawnOrder(pool, cap)
  /\ spawnTimer' = IF spawnTimer # -1 THEN spawnTimer ELSE 0
  /\ isListening' = TRUE
  /\ UNCHANGED << completedOrders, totalScore, ordersCompleted, perfectOrders,
                  dishes, stationVars >>

\* The Pause button: pauseGame, OrderSystem.stop, stopListening.
ClickPause ==
  /\ isRunning
  /\ isRunning' = FALSE
  /\ osRunning' = FALSE
  /\ spawnTimer' = -1
  /\ isListening' = FALSE
  /\ UNCHANGED << orderVars, dishes, stationVars >>

\* The Reset button: resetGame (pauseGame, clearAllOrders, clearCurrentDish,
\* resetDish of every dish).
ClickReset ==
  /\ isRunning' = FALSE
  /\ osRunning' = (IF isRunning THEN FALSE ELSE osRunning)
  /\ spawnTimer' = (IF isRunning THEN -1 ELSE spawnTimer)
  /\ isListening' = (IF isRunning THEN FALSE ELSE isListening)
  /\ activeOrders' = << >>
  /\ completedOrders' = << >>
  /\ totalScore' = 0
  /\ ordersCompleted' = 0
  /\ perfectOrders' = 0
  /\ activeStation' = clearCurrentDish.activeStation
  /\ currentDish' = clearCurrentDish.currentDish
  /\ dishes' = [d \in DishIds |-> resetDish(dishes[d])]
  /\ UNCHANGED << nextId, orderTimers, stations, cookTimers >>

\* A click on an order's element: its listener calls OrderSystem.selectOrder.
\* The element of a completed order stays in the page for a second or two.
ClickOrder(id) ==
  /\ id \in 1..(nextId - 1)
  /\ \/ OrderIndex(activeOrders, id) # 0
     \/ \E i \in 1..Len(completedOrders) : completedOrders[i].id = id
  /\ IF OrderIndex(activeOrders, id) = 0
     THEN UNCHANGED activeOrders
     ELSE /\ activeOrders' = selectOrder(activeOrders, id)
  /\ UNCHANGED << completedOrders, totalScore, ordersCompleted, perfectOrders,
                  nextId, orderTimers, runVars, stationVars, dishes >>

\* A number key: handleOrderSelection(n).
KeyDigit(n) ==
  /\ isListening
  /\ IF n - 1 < Len(activeOrders)
     THEN gameSelectOrder(activeOrders[n].id)
     ELSE UNCHANGED << orderVars, runVars, stationVars, dishes >>

\* handleKeyDown, key 'escape'.
KeyEscape == isListening /\ cancelCurrentDish

\* handleKeyDown, key ' '.
KeySpace == isListening /\ serveDish

\* handleKeyDown, key 'enter'.
KeyEnter == isListening /\ retrieveCookedItems

\* handleKeyDown, any other key: the mapping of the active order's dish.
KeyDish(key) ==
  /\ isListening
  /\ LET a == getActiveOrder(activeOrders) IN
     IF a = 0
     THEN UNCHANGED << orderVars, runVars, stationVars, dishes >>
     ELSE LET d == activeOrders[a].dishId
              m == KeyMapping(d, key)
          IN IF m.type = "ingredient" THEN addIngredient(d, m.id)
             ELSE IF m.type = "tool" THEN useTool(d, m.id)
             ELSE UNCHANGED << orderVars, runVars, stationVars, dishes >>

\* TickSec seconds pass: every time difference the code reads grows.
Tick ==
  LET T == TickSec * 1000 IN
  /\ activeOrders' = [i \in 1..Len(activeOrders) |->
        [activeOrders[i] EXCEPT !.elapsed = Min(@ + T, activeOrders[i].timeLimit)]]
  /\ stations' = [st \in StationIds |-> [k \in DOMAIN stations[st] |->
        [stations[st][k] EXCEPT !.elapsed = Min(@ + T, stations[st][k].cookingTime)]]]
  /\ cookTimers' = {[t EXCEPT !.elapsed = Min(@ + T, t.time)] : t \in cookTimers}
  /\ spawnTimer' = IF spawnTimer = -1 THEN -1 ELSE Min(spawnTimer + T, orderSpawnRate)
  /\ UNCHANGED << completedOrders, totalScore, ordersCompleted, perfectOrders, nextId,
                  orderTimers, osRunning, isRunning, isListening, dishes,
                  activeStation, currentDish >>

\* The setInterval callback of startSpawning.
SpawnTimerFire(pool, cap) ==
  /\ spawnTimer # -1
  /\ spawnTimer >= orderSpawnRate
  /\ spawnTimer' = 0
  /\ IF osRunning /\ Len(activeOrders) < maxActiveOrders
     THEN spawnOrder(pool, cap)
     ELSE UNCHANGED << activeOrders, nextId, orderTimers >>
  /\ UNCHANGED << completedOrders, totalScore, ordersCompleted, perfectOrders,
                  osRunning, isRunning, isListening, dishes, stationVars >>

\* An updateTimer that is not re-armed: a run that finds time remaining is the
\* last one.
OrderTimerFireOnce(id) ==
  /\ id \in orderTimers
  /\ LET i == OrderIndex(activeOrders, id) IN
     IF i = 0 \/ getRemainingTime(activeOrders[i]) > 0
     THEN /\ orderTimers' = orderTimers \ {id}
          /\ UNCHANGED << activeOrders, completedOrders, totalScore, ordersCompleted,
                          perfectOrders >>
     ELSE /\ expireOrder(id)
          /\ orderTimers' = orderTimers \ {id}
  /\ UNCHANGED << nextId, runVars, stationVars, dishes >>

\* An updateTimer that expires the order without looking at the time left.
OrderTimerFireEarly(id) ==
  /\ id \in orderTimers
  /\ LET i == OrderIndex(activeOrders, id) IN
     IF i = 0
     THEN /\ orderTimers' = orderTimers \ {id}
          /\ UNCHANGED << activeOrders, completedOrders, totalScore, ordersCompleted,
                          perfectOrders >>
     ELSE /\ expireOrder(id)
          /\ orderTimers' = orderTimers \ {id}
  /\ UNCHANGED << nextId, runVars, stationVars, dishes >>

\* The updateTimer callback of startOrderTimer for order id.  It runs every
\* second; a run that finds time remaining changes nothing and is re-armed.
OrderTimerFire(id) ==
  /\ id \in orderTimers
  /\ LET i == OrderIndex(activeOrders, id) IN
     IF i = 0
     THEN /\ orderTimers' = orderTimers \ {id}
          /\ UNCHANGED << activeOrders, completedOrders, totalScore, ordersCompleted,
                          perfectOrders >>
     ELSE /\ getRemainingTime(activeOrders[i]) <= 0
          /\ expireOrder(id)
          /\ orderTimers' = orderTimers \ {id}
  /\ UNCHANGED << nextId, runVars, stationVars, dishes >>

\* A timeout callback that marks every item of its station ready, not only
\* the item of its own slot.
CookTimerFireStation(t) ==
  /\ t \in cookTimers
  /\ t.elapsed >= t.time
  /\ cookTimers' = cookTimers \ {t}
  /\ stations' = [stations EXCEPT ![t.station] =
        [k \in DOMAIN @ |-> [@[k] EXCEPT !.isReady = TRUE]]]
  /\ UNCHANGED << orderVars, runVars, activeStation, currentDish, dishes >>

\* The setTimeout callback of addItem for a slot: whatever item is in the
\* slot now is marked ready.
CookTimerFire(t) ==
  /\ t \in cookTimers
  /\ t.elapsed >= t.time
  /\ cookTimers' = cookTimers \ {t}
  /\ stations' = IF t.slot \in DOMAIN stations[t.station]
                 THEN [stations EXCEPT ![t.station][t.slot].isReady = TRUE]
                 ELSE stations
  /\ UNCHANGED << orderVars, runVars, activeStation, currentDish, dishes >>

\* Spec: the order lifecycle.  Orders are spawned for pasta_marinara, whose
\* only timed step (boil) is the ingredient's last prep step, so that useTool
\* submits no cooking job and no addItem timeout is ever armed.
SpawnPool == {"pasta_marinara"}
DishKeys == {"a", ",", "s"}

Next ==
  \/ ClickStart(SpawnPool, MaxOrders)
  \/ ClickPause
  \/ ClickReset
  \/ \E id \in 1..MaxOrders : ClickOrder(id)
  \/ \E n \in 1..(MaxOrders + 1) : KeyDigit(n)
  \/ KeyEscape
  \/ KeySpace
  \/ KeyEnter
  \/ \E key \in DishKeys : KeyDish(key)
  \/ Tick
  \/ SpawnTimerFire(SpawnPool, MaxOrders)
  \/ \E id \in 1..MaxOrders : OrderTimerFire(id)

Spec == Init /\ [][Next]_vars

\* KitchenSpec: the stations.  Orders are spawned for caesar_salad, the one
\* recipe whose timed step (grill) is followed by another prep step.
\* Orders spawned in one kitchen run.  Every order of the run is spawned by
\* Start / Resume (OrderSystem.start spawns at once): the interval of
\* startSpawning finds the run's orders used up.
KitchenOrders == 1
KitchenPool == {"caesar_salad"}
KitchenKeys == {"l", "x", "c", "q", "v"}

KitchenNext ==
  \/ ClickStart(KitchenPool, KitchenOrders)
  \/ ClickPause
  \/ ClickReset
  \/ \E id \in 1..KitchenOrders : ClickOrder(id)
  \/ \E n \in 1..(KitchenOrders + 1) : KeyDigit(n)
  \/ KeyEscape
  \/ KeySpace
  \/ KeyEnter
  \/ \E key \in KitchenKeys : KeyDish(key)
  \/ Tick
  \/ \E id \in 1..KitchenOrders : OrderTimerFire(id)
  \/ \E t \in cookTimers : CookTimerFire(t)

KitchenSpec == Init /\ [][KitchenNext]_vars

\* FairSpec: a run without the Reset button in which time passes and every
\* pending updateTimer callback is eventually run by the event loop.
FairNext ==
  \/ ClickStart(SpawnPool, MaxOrders)
  \/ ClickPause
  \/ \E id \in 1..MaxOrders : ClickOrder(id)
  \/ \E n \in 1..(MaxOrders + 1) : KeyDigit(n)
  \/ KeyEscape
  \/ KeySpace
  \/ KeyEnter
  \/ \E key \in DishKeys : KeyDish(key)
  \/ Tick
  \/ SpawnTimerFire(SpawnPool, MaxOrders)
  \/ \E id \in 1..MaxOrders : OrderTimerFire(id)

FairSpec ==
  /\ Init
  /\ [][FairNext]_vars
  /\ WF_vars(Tick)
  /\ \A id \in 1..MaxOrders : WF_vars(OrderTimerFire(id))

\* RatingSpec: completeOrder as a function of the order's time limit, the time
\* since its creation and dishValid.  The game is running with one order, which
\* is selected; the order's age is a multiple of RatingStepMs.
RatingStepMs == 500
RatingPool == {"pasta_marinara", "caesar_salad"}
RatingJitters == {11, 15}

RatingInit ==
  /\ \E d \in RatingPool, j \in RatingJitters :
       LET limit == baseTime + DishDef[d].difficulty * 10 + j IN
       \E e \in 0..((limit * 1000) \div RatingStepMs) :
          /\ activeOrders = << [NewOrder(1, d, limit) EXCEPT
                                  !.elapsed = Min(e * RatingStepMs, limit * 1000),
                                  !.isActive = TRUE] >>
          /\ currentDish = d
  /\ completedOrders = << >>
  /\ totalScore = 0
  /\ ordersCompleted = 0
  /\ perfectOrders = 0
  /\ osRunning = TRUE
  /\ spawnTimer = 0
  /\ nextId = 2
  /\ orderTimers = {1}
  /\ dishes = [d \in DishIds |-> FreshDish]
  /\ stations = [st \in StationIds |-> EmptyMap]
  /\ cookTimers = {}
  /\ activeStation = "prep"
  /\ isRunning = TRUE
  /\ isListening = TRUE

\* orderSystem.completeOrder(id, dishValid) on the one live order.
RatingStep(dishValid) ==
  /\ Len(activeOrders) = 1
  /\ completeOrder(activeOrders[1].id, dishValid)
  /\ UNCHANGED << nextId, orderTimers, runVars, stationVars, dishes >>

RatingNext == \E dishValid \in BOOLEAN : RatingStep(dishValid)

RatingSpec == RatingInit /\ [][RatingNext]_vars

\* DishSpec: the recipes.  One order is spawned, for any dish of the catalog,
\* and worked on with every key some recipe maps; no time passes.
DishOrders == 1
AllKeys ==
  UNION {{getDishKeyMappings(d)[i].key : i \in 1..Len(getDishKeyMappings(d))} : d \in DishIds}

DishNext ==
  \/ ClickStart(DishIds, DishOrders)
  \/ \E id \in 1..DishOrders : ClickOrder(id)
  \/ \E n \in 1..(DishOrders + 1) : KeyDigit(n)
  \/ KeyEscape
  \/ KeySpace
  \/ \E key \in AllKeys : KeyDish(key)

DishSpec == Init /\ [][DishNext]_vars

\* DishApiSpec: the DishSystem class by itself.  Its three mutating methods
\* are called with any dish id, any ingredient id and any tool id of the
\* catalog (the keyboard passes only mapped ones).  Each method touches the
\* one dish getDish(dishId) returns, so the calls work on one dish at a time
\* while the others are as constructed.
AllIngredients == DOMAIN IngredientKey
OtherDishesFresh(d) == \A e \in DishIds \ {d} : dishes[e] = FreshDish

ApiAddIngredient(d, id) ==
  /\ OtherDishesFresh(d)
  /\ dishes' = [dishes EXCEPT ![d] = addIngredientToDish(@, d, id).dish]
  /\ UNCHANGED << orderVars, runVars, stationVars >>

ApiUseTool(d, tool) ==
  /\ OtherDishesFresh(d)
  /\ dishes' = [dishes EXCEPT ![d] = useToolOnDish(@, d, tool).dish]
  /\ UNCHANGED << orderVars, runVars, stationVars >>

ApiResetDish(d) ==
  /\ OtherDishesFresh(d)
  /\ dishes' = [dishes EXCEPT ![d] = resetDish(@)]
  /\ UNCHANGED << orderVars, runVars, stationVars >>

DishApiNext ==
  \E d \in DishIds :
     \/ \E id \in AllIngredients : ApiAddIngredient(d, id)
     \/ \E tool \in Tools : ApiUseTool(d, tool)
     \/ ApiResetDish(d)

DishApiSpec == Init /\ [][DishApiNext]_vars


\* CapacitySpec: the order board filling up.  Nobody cooks: orders are
\* spawned by Start / Resume and by the spawn interval, more of them than
\* maxActiveOrders, and leave by expiry only.
CapacityOrders == 6

CapacityNext ==
  \/ ClickStart(SpawnPool, CapacityOrders)
  \/ ClickPause
  \/ Tick
  \/ SpawnTimerFire(SpawnPool, CapacityOrders)
  \/ \E id \in 1..CapacityOrders : OrderTimerFire(id)

CapacitySpec == Init /\ [][CapacityNext]_vars

\* SelectSpec: two orders for the salad on the board while one is cooked and
\* served.  The second order comes from the spawn interval; orders are
\* selected by number key and by click, and leave by being served or by
\* expiry.
SelectOrders == 2
SelectKeys == {"c", "q", "l", "x"}

SelectNext ==
  \/ ClickStart(KitchenPool, SelectOrders)
  \/ \E id \in 1..SelectOrders : ClickOrder(id)
  \/ \E n \in 1..(SelectOrders + 1) : KeyDigit(n)
  \/ KeySpace
  \/ KeyEnter
  \/ \E key \in SelectKeys : KeyDish(key)
  \/ Tick
  \/ SpawnTimerFire(KitchenPool, SelectOrders)
  \/ \E id \in 1..SelectOrders : OrderTimerFire(id)
  \/ \E t \in cookTimers : CookTimerFire(t)

SelectSpec == Init /\ [][SelectNext]_vars

\* OrderApiSpec: the OrderSystem class by itself.  selectOrder and
\* completeOrder are called with any order id, live, finished or never
\* spawned, where the game only passes ids it read from activeOrders.
ApiOrders == 2

ApiSelectOrder(id) ==
  /\ activeOrders' = IF OrderIndex(activeOrders, id) = 0 THEN activeOrders
                      ELSE selectOrder(activeOrders, id)
  /\ UNCHANGED << completedOrders, totalScore, ordersCompleted, perfectOrders,
                  nextId, orderTimers, runVars, stationVars, dishes >>

ApiCompleteOrder(id, dishValid) ==
  /\ completeOrder(id, dishValid)
  /\ UNCHANGED << nextId, orderTimers, runVars, stationVars, dishes >>

OrderApiNext ==
  \/ ClickStart(SpawnPool, ApiOrders)
  \/ ClickPause
  \/ Tick
  \/ \E id \in 1..(ApiOrders + 1) : ApiSelectOrder(id)
  \/ \E id \in 1..(ApiOrders + 1), dishValid \in BOOLEAN : ApiCompleteOrder(id, dishValid)

OrderApiSpec == Init /\ [][OrderApiNext]_vars

\* StationApiSpec: the CookingStationManager class by itself.  setActiveDish,
\* handleCookingAction and removeCookedItem are called directly, also with a
\* dish id and a station id the catalog does not know, while time passes and
\* the addItem timeouts run.  At most ApiJobs jobs cook at a time.
ApiJobs == 2
UnknownId == "unknown"
ApiDishes == KitchenPool \cup {UnknownId}
ApiStations == StationIds \cup {None, UnknownId}
ApiActions == {"grill", "boil"}
JobCount ==
  Cardinality({p \in StationIds \X (0..3) : p[2] \in DOMAIN stations[p[1]]})

ApiSetActiveDish(d, stationId) ==
  LET sa == setActiveDish(activeStation, d, stationId) IN
  /\ activeStation' = sa.activeStation
  /\ currentDish' = sa.currentDish
  /\ UNCHANGED << orderVars, runVars, dishes, stations, cookTimers >>

ApiHandleCookingAction(action, ingredient) ==
  LET h == handleCookingAction(stations, cookTimers, activeStation, currentDish,
                               action, ingredient) IN
  /\ JobCount < ApiJobs
  /\ stations' = h.stations
  /\ cookTimers' = h.cookTimers
  /\ UNCHANGED << orderVars, runVars, dishes, activeStation, currentDish >>

ApiRemoveCookedItem(st, slot) ==
  /\ stations' = removeCookedItem(stations, st, slot)
  /\ UNCHANGED << orderVars, runVars, dishes, cookTimers, activeStation, currentDish >>

StationApiNext ==
  \/ \E d \in ApiDishes, stationId \in ApiStations : ApiSetActiveDish(d, stationId)
  \/ \E action \in ApiActions : ApiHandleCookingAction(action, "chicken_breast")
  \/ \E st \in StationIds, slot \in 0..3 : ApiRemoveCookedItem(st, slot)
  \/ Tick
  \/ \E t \in cookTimers : CookTimerFire(t)

StationApiSpec == Init /\ [][StationApiNext]_vars

\* CrossSpec: two orders on the board whose recipes both take chicken_breast
\* (grilled for the salad, fried for the fried chicken).  The chicken is added
\* and grilled under one order and collected while another is selected.
CrossOrders == 2
CrossPool == {"caesar_salad", "fried_chicken"}
CrossKeys == {"c", "q"}

CrossNext ==
  \/ ClickStart(CrossPool, CrossOrders)
  \/ \E n \in 1..(CrossOrders + 1) : KeyDigit(n)
  \/ KeyEnter
  \/ \E key \in CrossKeys : KeyDish(key)
  \/ Tick
  \/ SpawnTimerFire(CrossPool, CrossOrders)
  \/ \E t \in cookTimers : CookTimerFire(t)

CrossSpec == Init /\ [][CrossNext]_vars

\* =========================================================== properties
LiveIds == {activeOrders[i].id : i \in 1..Len(activeOrders)}
DoneIds == {completedOrders[i].id : i \in 1..Len(completedOrders)}
RatingOf(id) == {completedOrders[i].rating :
                   i \in {k \in 1..Len(completedOrders) : completedOrders[k].id = id}}
ServedRatings == {"perfect", "good", "average", "bad"}

\* ------------------------------------------------------------------ C1
\* C1: in every reachable state at most one of the live orders is selected
\* (isActive).
AtMostOneActive ==
  Cardinality({i \in 1..Len(activeOrders) : activeOrders[i].isActive}) <= 1

\* Two live orders; the later one is selected, the earlier one is not.
TwoLiveOneActive ==
  /\ Len(activeOrders) = 2
  /\ ~activeOrders[1].isActive
  /\ activeOrders[2].isActive

\* ------------------------------------------------------------------ C2
\* C2: a station never holds more items than it has slots, every item sits in
\* a slot index of its own below the capacity, and while every slot of a
\* station is occupied no step starts a job there: no item is replaced and no
\* timeout is armed for the station.
SlotsWithinCapacity ==
  \A st \in StationIds :
     /\ DOMAIN stations[st] \subseteq 0..(StationDef[st].cookingSlots - 1)
     /\ Cardinality(DOMAIN stations[st]) <= StationDef[st].cookingSlots

FullStationStartsNoJob ==
  \A st \in StationIds :
     Cardinality(DOMAIN stations[st]) = StationDef[st].cookingSlots =>
        /\ \A k \in DOMAIN stations'[st] :
              /\ k \in DOMAIN stations[st]
              /\ stations'[st][k].ingredient = stations[st][k].ingredient
              /\ stations'[st][k].action = stations[st][k].action
              /\ stations'[st][k].elapsed >= stations[st][k].elapsed
              /\ stations[st][k].isReady => stations'[st][k].isReady
        /\ \A t \in cookTimers' :
              t.station = st =>
                 \E u \in cookTimers :
                    u.station = st /\ u.slot = t.slot /\ u.elapsed <= t.elapsed

StationCapacity == []SlotsWithinCapacity /\ [][FullStationStartsNoJob]_vars

\* The grill holds three items and the selected order's chicken breast is
\* added and waits for its grill step: the next 'q' is a submission to a full
\* station.
GrillFullBeforeSubmission ==
  /\ Cardinality(DOMAIN stations["grill"]) = 3
  /\ isListening
  /\ getActiveOrder(activeOrders) # 0
  /\ "chicken_breast" \in dishes["caesar_salad"].currentIngredients
  /\ dishes["caesar_salad"].ingredientStates["chicken_breast"].prepStepsCompleted = 0

\* ------------------------------------------------------------------ C3
\* C3: for every ingredient added to a dish, isReady holds exactly when
\* prepStepsCompleted equals the number of prep steps of the recipe.
ReadyIffPrepDone ==
  \A d \in DishIds :
     \A id \in dishes[d].currentIngredients :
        dishes[d].ingredientStates[id].isReady <=>
           (dishes[d].ingredientStates[id].prepStepsCompleted
              = Len(DishDef[d].ingredients[IngIndex(d, id)].prepSteps))

\* ------------------------------------------------------------------ C4
\* C4: the dish state a newly spawned order is bound to is fresh (nothing
\* added, no progress, no final step done), whatever was done for other orders.
SpawnedOrderHasFreshDish ==
  [][Len(activeOrders') > Len(activeOrders) =>
       dishes'[activeOrders'[Len(activeOrders')].dishId] = FreshDish]_vars

\* ------------------------------------------------------------------ C5
\* C5: when the selected order is served, cancelled or expires, the dish state
\* it was using is reset in that step.
DishResetOnLeave ==
  [][\A i \in 1..Len(activeOrders) :
        (/\ activeOrders[i].isActive
         /\ \/ KeyEscape
            \/ /\ activeOrders[i].id \notin LiveIds'
               /\ activeOrders[i].id \in DoneIds')
        => dishes'[activeOrders[i].dishId] = FreshDish]_vars

\* ------------------------------------------------------------------ C6
\* C6: after cancelCurrentDish no station slot holds an item that was
\* submitted for the cancelled dish.
CancelClearsJobs ==
  [][(KeyEscape /\ getActiveOrder(activeOrders) # 0) =>
        \A st \in StationIds : \A k \in DOMAIN stations'[st] :
           stations'[st][k].forDish
              # activeOrders[getActiveOrder(activeOrders)].dishId]_vars

\* ------------------------------------------------------------------ C7
\* C7: an order is recorded as terminal at most once; a recorded order is
\* complete, rated and not live, and a live order is neither; the record only
\* grows (the Reset button alone empties it) and its entries never change; an
\* id that is or was in use is never given to a live order again.
TerminalRecord ==
  /\ \A i, j \in 1..Len(completedOrders) :
        completedOrders[i].id = completedOrders[j].id => i = j
  /\ \A i \in 1..Len(completedOrders) :
        /\ completedOrders[i].isComplete
        /\ completedOrders[i].rating \in ServedRatings \cup {"failed"}
        /\ completedOrders[i].id \notin LiveIds
        /\ completedOrders[i].id < nextId
  /\ \A i \in 1..Len(activeOrders) :
        /\ ~activeOrders[i].isComplete
        /\ activeOrders[i].rating = None
        /\ activeOrders[i].id < nextId

TerminalStays ==
  /\ \/ completedOrders' = << >>
     \/ /\ Len(completedOrders') >= Len(completedOrders)
        /\ \A i \in 1..Len(completedOrders) : completedOrders'[i] = completedOrders[i]
  /\ DoneIds \cap LiveIds' = {}
  /\ \A id \in LiveIds' \ LiveIds : id = nextId
  /\ nextId' >= nextId

TerminalOnce == []TerminalRecord /\ [][TerminalStays]_vars

\* Two orders are recorded, one expired and one served, and none is live.
ServedAndExpired ==
  /\ Len(completedOrders) = 2
  /\ activeOrders = << >>
  /\ \E i, j \in 1..2 :
        /\ completedOrders[i].rating = "failed"
        /\ completedOrders[j].rating \in ServedRatings

\* ------------------------------------------------------------------ C8
\* C8: with no reset, with time passing and the pending timer callbacks run,
\* every live order is eventually recorded as served or as expired with rating
\* failed.
UnservedEventuallyFailed ==
  \A id \in 1..MaxOrders :
     (id \in LiveIds) ~> (RatingOf(id) \subseteq ServedRatings \cup {"failed"}
                          /\ RatingOf(id) # {})

\* Two orders expired, one while selected and one while pending.
ExpiredActiveAndPending ==
  \E i, j \in 1..Len(completedOrders) :
     /\ completedOrders[i].rating = "failed" /\ completedOrders[i].isActive
     /\ completedOrders[j].rating = "failed" /\ ~completedOrders[j].isActive

\* ------------------------------------------------------------------ C9
\* C9: the step in which an order expires lowers totalScore by 20.
ExpiryCostsTwenty ==
  [][\A id \in LiveIds :
        (OrderTimerFire(id) /\ id \in DoneIds') => totalScore' = totalScore - 20]_vars

\* ----------------------------------------------------------------- C10
\* C10: completeOrder rates by r = remaining seconds / time limit in seconds:
\* r > 0.75 perfect/100, 0.25 < r <= 0.75 good/60, 0 < r <= 0.25 average/30,
\* r <= 0 bad/0, an invalid dish bad/0; totalScore grows by the awarded score.
RatingThresholds ==
  [][\A dishValid \in BOOLEAN :
        RatingStep(dishValid) =>
           LET o == activeOrders[1]
               rem == getRemainingTime(o) * 1000
               done == completedOrders'[Len(completedOrders')]
               award == totalScore' - totalScore
           IN /\ done.id = o.id
              /\ (dishValid /\ 4 * rem > 3 * o.timeLimit)
                    => (done.rating = "perfect" /\ award = 100)
              /\ (dishValid /\ 4 * rem > o.timeLimit /\ 4 * rem <= 3 * o.timeLimit)
                    => (done.rating = "good" /\ award = 60)
              /\ (dishValid /\ rem > 0 /\ 4 * rem <= o.timeLimit)
                    => (done.rating = "average" /\ award = 30)
              /\ (dishValid /\ rem <= 0) => (done.rating = "bad" /\ award = 0)
              /\ ~dishValid => (done.rating = "bad" /\ award = 0)]_vars

\* An order with a limit of 80 s was completed as good and 60 was awarded.
RatedGood ==
  /\ activeOrders = << >>
  /\ Len(completedOrders) = 1
  /\ completedOrders[1].timeLimit = 80000
  /\ completedOrders[1].rating = "good"
  /\ totalScore = 60

PauseFreezesOrders ==
  [][(~isRunning /\ ~isRunning') =>
        \A i \in 1..Len(activeOrders) :
           /\ activeOrders[i].id \notin DoneIds'
           /\ \A j \in 1..Len(activeOrders') :
                 activeOrders'[j].id = activeOrders[i].id =>
                    getRemainingTime(activeOrders'[j]) = getRemainingTime(activeOrders[i])]_vars

\* ----------------------------------------------------------------- C13
\* C13: while the game is paused no item in a station slot goes from not ready
\* to ready, and the time it has cooked does not grow.
PauseFreezesCooking ==
  [][(~isRunning /\ ~isRunning') =>
        \A st \in StationIds : \A k \in DOMAIN stations[st] :
           (k \in DOMAIN stations'[st] /\ ~stations[st][k].isReady) =>
              /\ ~stations'[st][k].isReady
              /\ stations'[st][k].elapsed = stations[st][k].elapsed]_vars

\* ----------------------------------------------------------------- C14
\* C14: isDishValid is true exactly when every required ingredient of the
\* recipe is added and ready; the optional ingredients and the final-step
\* counter do not change the result.
RequiredIds(d) ==
  {DishDef[d].ingredients[i].id :
     i \in {k \in 1..Len(DishDef[d].ingredients) : DishDef[d].ingredients[k].required}}

RequiredOnly(ds, d) ==
  [currentIngredients |-> ds.currentIngredients \cap RequiredIds(d),
   ingredientStates |-> [x \in (DOMAIN ds.ingredientStates) \cap RequiredIds(d) |->
                           ds.ingredientStates[x]],
   finalStepsProgress |-> 0, isComplete |-> FALSE]

ValidIffRequiredReady ==
  \A d \in DishIds :
     /\ isDishValid(dishes[d], d) <=>
           \A id \in RequiredIds(d) :
              /\ id \in dishes[d].currentIngredients
              /\ dishes[d].ingredientStates[id].isReady
     /\ isDishValid(dishes[d], d) <=> isDishValid(RequiredOnly(dishes[d], d), d)

\* The burger is valid while lettuce is added and not chopped, cheese is
\* absent and a final step is done.
ValidWithOptionalPending ==
  LET ds == dishes["classic_burger"] IN
  /\ isDishValid(ds, "classic_burger")
  /\ "lettuce" \in ds.currentIngredients
  /\ ~ds.ingredientStates["lettuce"].isReady
  /\ "cheese" \notin ds.currentIngredients
  /\ ds.finalStepsProgress = 1

\* ----------------------------------------------------------------- C15
\* C15: with a selected order whose required ingredients are all added and
\* ready, the serve key completes the order, whatever the final-step progress;
\* with no selected order or a required ingredient missing or not ready, the
\* serve key changes nothing.
RequiredReady(d) ==
  \A id \in RequiredIds(d) :
     /\ id \in dishes[d].currentIngredients
     /\ dishes[d].ingredientStates[id].isReady

Servable ==
  /\ getActiveOrder(activeOrders) # 0
  /\ RequiredReady(activeOrders[getActiveOrder(activeOrders)].dishId)

ServeSucceedsWhenValid ==
  (isListening /\ Servable) =>
     ENABLED (/\ KeySpace
              /\ activeOrders[getActiveOrder(activeOrders)].id \in DoneIds'
              /\ activeOrders[getActiveOrder(activeOrders)].id \notin LiveIds'
              /\ ordersCompleted' = ordersCompleted + 1)

ServeFailsOtherwise == (KeySpace /\ ~Servable) => UNCHANGED vars

StationFull(st) == Cardinality(DOMAIN stations[st]) = StationDef[st].cookingSlots

FullStationKeepsProgress ==
  [][\A key \in KitchenKeys :
        (isListening /\ getActiveOrder(activeOrders) # 0 /\ KeyDish(key)) =>
           LET d == activeOrders[getActiveOrder(activeOrders)].dishId
               m == KeyMapping(d, key)
               i == IF m.type = "tool" THEN PrepTarget(dishes[d], d, m.id) ELSE 0
           IN (i # 0) =>
                 LET ing == DishDef[d].ingredients[i]
                     step == ing.prepSteps[dishes[d].ingredientStates[ing.id].prepStepsCompleted + 1]
                 IN (step.station \in StationIds \ {"prep"} /\ StationFull(step.station))
                       => dishes'[d] = dishes[d]]_vars

\* ----------------------------------------------------------------- C17
\* C17: in no reachable state has a dish a final step done while a required
\* ingredient is absent or not ready.
FinalStepsNeedValidDish ==
  \A d \in DishIds : dishes[d].finalStepsProgress > 0 => isDishValid(dishes[d], d)

\* ----------------------------------------------------------------- C18
\* C18: a tool key that matches neither the next prep step of an added, not
\* ready ingredient nor the current final step changes nothing: dishes,
\* stations, active station and orders stay as they are.
PendingPrep(d, tool) ==
  {i \in 1..Len(DishDef[d].ingredients) :
     LET ing == DishDef[d].ingredients[i] IN
     /\ ing.id \in dishes[d].currentIngredients
     /\ ~dishes[d].ingredientStates[ing.id].isReady
     /\ dishes[d].ingredientStates[ing.id].prepStepsCompleted < Len(ing.prepSteps)
     /\ ing.prepSteps[dishes[d].ingredientStates[ing.id].prepStepsCompleted + 1].action = tool}

FinalMatches(d, tool) ==
  /\ dishes[d].finalStepsProgress < Len(DishDef[d].finalSteps)
  /\ DishDef[d].finalSteps[dishes[d].finalStepsProgress + 1].action = tool

\* The keys some recipe maps to a tool.
ToolKeys == {key \in AllKeys : \E d \in DishIds : KeyMapping(d, key).type = "tool"}

NoMatchIsNoOp ==
  [][\/ UNCHANGED vars
     \/ ~isListening
     \/ getActiveOrder(activeOrders) = 0
     \/ \A key \in ToolKeys :
           LET d == activeOrders[getActiveOrder(activeOrders)].dishId
               m == KeyMapping(d, key)
           IN (/\ m.type = "tool"
               /\ PendingPrep(d, m.id) = {}
               /\ ~FinalMatches(d, m.id)
               /\ KeyDish(key)) => UNCHANGED vars]_vars

\* The caesar salad's chicken breast is grilled and waits to be sliced, and its
\* first final step (toss) is done: the grill key and the toss key match nothing.
GrilledChickenNoMatch ==
  /\ isListening
  /\ getActiveOrder(activeOrders) # 0
  /\ activeOrders[getActiveOrder(activeOrders)].dishId = "caesar_salad"
  /\ PendingPrep("caesar_salad", "grill") = {}
  /\ ~FinalMatches("caesar_salad", "toss")
  /\ "chicken_breast" \in dishes["caesar_salad"].currentIngredients
  /\ dishes["caesar_salad"].ingredientStates["chicken_breast"].prepStepsCompleted = 1

\* ----------------------------------------------------------------- C19
\* C19: a tool step advances one counter by one (one ingredient's
\* prepStepsCompleted or finalStepsProgress); except in the steps that reset
\* the dish (serve, cancel) no counter decreases; prepStepsCompleted stays
\* within the ingredient's prep steps and finalStepsProgress within the final
\* steps.
CountersWithinSteps ==
  \A d \in DishIds :
     /\ dishes[d].finalStepsProgress \in 0..Len(DishDef[d].finalSteps)
     /\ \A id \in dishes[d].currentIngredients :
           dishes[d].ingredientStates[id].prepStepsCompleted
              \in 0..Len(DishDef[d].ingredients[IngIndex(d, id)].prepSteps)

Advanced(d) ==
  {id \in dishes[d].currentIngredients :
     dishes'[d].ingredientStates[id].prepStepsCompleted
        # dishes[d].ingredientStates[id].prepStepsCompleted}

OneUnitPerStep ==
  (KeyEscape \/ KeySpace) \/
  \A d \in DishIds :
     /\ dishes[d].currentIngredients \subseteq dishes'[d].currentIngredients
     /\ \A id \in dishes[d].currentIngredients :
           dishes'[d].ingredientStates[id].prepStepsCompleted
              - dishes[d].ingredientStates[id].prepStepsCompleted \in {0, 1}
     /\ dishes'[d].finalStepsProgress - dishes[d].finalStepsProgress \in {0, 1}
     /\ Cardinality(Advanced(d))
           + (dishes'[d].finalStepsProgress - dishes[d].finalStepsProgress) <= 1
     /\ \A id \in dishes'[d].currentIngredients \ dishes[d].currentIngredients :
           dishes'[d].ingredientStates[id].prepStepsCompleted = 0

CountersAdvanceByOne == []CountersWithinSteps /\ [][OneUnitPerStep]_vars

\* The burger's bun and tomato are both sliced (two slice steps, one each) and
\* the first final step is done.
BunAndTomatoSliced ==
  LET ds == dishes["classic_burger"] IN
  /\ {"burger_bun", "tomato"} \subseteq ds.currentIngredients
  /\ ds.ingredientStates["burger_bun"].prepStepsCompleted = 1
  /\ ds.ingredientStates["tomato"].prepStepsCompleted = 1
  /\ ds.finalStepsProgress = 1

\* ----------------------------------------------------------------- C20
\* C20: of the added, not ready ingredients whose next prep step uses the tool,
\* the first in recipe order advances and no other; the final-step counter
\* moves only when no ingredient is pending for the tool.
FirstMatchWins ==
  [][\/ UNCHANGED vars
     \/ ~isListening
     \/ getActiveOrder(activeOrders) = 0
     \/ \A key \in ToolKeys :
           LET d == activeOrders[getActiveOrder(activeOrders)].dishId
               m == KeyMapping(d, key)
               pend == PendingPrep(d, m.id)
           IN (m.type = "tool" /\ pend # {} /\ KeyDish(key)) =>
                 LET first == CHOOSE i \in pend : \A j \in pend : i <= j
                     fid == DishDef[d].ingredients[first].id
                 IN /\ dishes'[d].ingredientStates[fid].prepStepsCompleted
                         = dishes[d].ingredientStates[fid].prepStepsCompleted + 1
                    /\ \A id \in dishes[d].currentIngredients \ {fid} :
                          dishes'[d].ingredientStates[id] = dishes[d].ingredientStates[id]
                    /\ dishes'[d].finalStepsProgress = dishes[d].finalStepsProgress]_vars

\* The burger's bun is sliced while the tomato, added as well, is not: one
\* slice with both added advances the bun.
BunSlicedTomatoPending ==
  LET ds == dishes["classic_burger"] IN
  /\ {"burger_bun", "tomato"} \subseteq ds.currentIngredients
  /\ ds.ingredientStates["burger_bun"].prepStepsCompleted = 1
  /\ ds.ingredientStates["tomato"].prepStepsCompleted = 0

\* ------------------------------------------------------------------ C21
\* C21: addIngredientToDish fails and leaves the dish as it is when the
\* ingredient is already added or is not an ingredient of the recipe;
\* otherwise it succeeds, adds the ingredient with prepStepsCompleted = 0 and
\* isReady exactly when the recipe gives it no prep step, and leaves every
\* other ingredient and the final steps as they are.
InRecipe(d, id) ==
  \E i \in 1..Len(DishDef[d].ingredients) : DishDef[d].ingredients[i].id = id
RecipePrepSteps(d, id) ==
  LET i == CHOOSE k \in 1..Len(DishDef[d].ingredients) : DishDef[d].ingredients[k].id = id
  IN DishDef[d].ingredients[i].prepSteps
AddIngredientContract ==
  \A d \in DishIds : \A id \in AllIngredients :
     LET ds == dishes[d]
         r == addIngredientToDish(ds, d, id)
     IN IF id \in ds.currentIngredients \/ ~InRecipe(d, id)
        THEN ~r.ok /\ r.dish = ds
        ELSE /\ r.ok
             /\ r.dish.currentIngredients = ds.currentIngredients \cup {id}
             /\ DOMAIN r.dish.ingredientStates = (DOMAIN ds.ingredientStates) \cup {id}
             /\ r.dish.ingredientStates[id].prepStepsCompleted = 0
             /\ r.dish.ingredientStates[id].isReady = (Len(RecipePrepSteps(d, id)) = 0)
             /\ \A x \in DOMAIN ds.ingredientStates :
                   r.dish.ingredientStates[x] = ds.ingredientStates[x]
             /\ r.dish.finalStepsProgress = ds.finalStepsProgress
             /\ r.dish.isComplete = ds.isComplete
\* The bun is added and sliced (adding it again must fail and keep the
\* slice), the cheese is added and ready at once, the patty is not added yet.
SlicedBunCheeseNoPatty ==
  LET ds == dishes["classic_burger"] IN
  /\ ds.currentIngredients = {"burger_bun", "cheese"}
  /\ ds.ingredientStates["burger_bun"].prepStepsCompleted = 1
  /\ ds.ingredientStates["cheese"] = [prepStepsCompleted |-> 0, isReady |-> TRUE]

\* ------------------------------------------------------------------ C22
\* C22: in every state of every dish, the ingredients with an entry in
\* ingredientStates are exactly the ingredients in currentIngredients.
StatesMatchAdded ==
  \A d \in DishIds : DOMAIN dishes[d].ingredientStates = dishes[d].currentIngredients
\* The salad has its lettuce and no chicken, while a grilled chicken of an
\* abandoned attempt waits in the grill to be collected for it.
ReadyChickenForDishWithout ==
  /\ dishes["caesar_salad"].currentIngredients = {"lettuce"}
  /\ \E k \in DOMAIN stations["grill"] :
        /\ stations["grill"][k].ingredient = "chicken_breast"
        /\ stations["grill"][k].isReady

\* ------------------------------------------------------------------ C23
\* C23: in every state of every dish, isComplete holds exactly when
\* finalStepsProgress equals the number of final steps of the recipe.
CompleteIffFinalStepsDone ==
  \A d \in DishIds :
     dishes[d].isComplete <=> (dishes[d].finalStepsProgress = Len(DishDef[d].finalSteps))
\* A burger assembled and plated: both final steps done, the dish complete.
BurgerPlated ==
  /\ dishes["classic_burger"].isComplete
  /\ dishes["classic_burger"].finalStepsProgress = 2

\* ------------------------------------------------------------------ C24
\* C24: resetDish returns a dish, whatever state it is in, to the state of a
\* freshly constructed dish (nothing added, no progress entry, no final step
\* done, not complete), and resetting the result again changes nothing.
ResetReturnsFresh ==
  [][\A d \in DishIds :
       ApiResetDish(d) =>
          /\ dishes'[d].currentIngredients = {}
          /\ DOMAIN dishes'[d].ingredientStates = {}
          /\ dishes'[d].finalStepsProgress = 0
          /\ ~dishes'[d].isComplete
          /\ dishes'[d] = FreshDish
          /\ resetDish(dishes'[d]) = dishes'[d]]_vars
\* A pizza with prepared ingredients, baked and plated, about to be reset.
PizzaCompleteBeforeReset ==
  LET ds == dishes["margherita_pizza"] IN
  /\ ds.isComplete
  /\ ds.currentIngredients # {}
  /\ \E id \in ds.currentIngredients : ds.ingredientStates[id].prepStepsCompleted > 0

\* ------------------------------------------------------------------ C25
\* C25: in every state, the job in a slot is ready exactly when the time
\* elapsed since its start is at least its cooking time.
ReadyIffDurationElapsed ==
  \A st \in StationIds : \A k \in DOMAIN stations[st] :
     stations[st][k].isReady <=> (stations[st][k].elapsed >= stations[st][k].cookingTime)

\* ------------------------------------------------------------------ C26
\* C26: a job that is ready stays in its slot, the same job and ready, over
\* every step that is not the collection of the ready jobs.
ReadyStaysReady ==
  [][\/ UNCHANGED stations
     \/ \A st \in StationIds : \A k \in DOMAIN stations[st] :
          stations[st][k].isReady =>
             IF k \in DOMAIN stations'[st]
             THEN /\ stations'[st][k].isReady
                  /\ stations'[st][k].ingredient = stations[st][k].ingredient
                  /\ stations'[st][k].action = stations[st][k].action
             ELSE KeyEnter]_vars
\* A grilled chicken is ready in its slot after its order has gone (expired
\* or served) and no order is left.
ReadyJobOutlivesOrder ==
  /\ activeOrders = << >>
  /\ completedOrders # << >>
  /\ \E k \in DOMAIN stations["grill"] : stations["grill"][k].isReady

\* ------------------------------------------------------------------ C27
\* C27: removeCookedItem on a slot that is empty or holds a job that is not
\* ready changes nothing; and over every step, a job that is gone from its
\* slot was ready and the step is the collection (Enter), and a collection
\* leaves the jobs that are not ready and the empty slots as they are.
CollectNeedsReady ==
  \A st \in StationIds : \A k \in 0..(StationDef[st].cookingSlots - 1) :
     (k \notin DOMAIN stations[st] \/ ~stations[st][k].isReady)
        => removeCookedItem(stations, st, k) = stations
LeavesOnlyCollected ==
  \/ UNCHANGED stations
  \/ \A st \in StationIds : \A k \in DOMAIN stations[st] :
       /\ k \notin DOMAIN stations'[st] => (stations[st][k].isReady /\ KeyEnter)
       /\ (KeyEnter /\ ~stations[st][k].isReady) =>
             (k \in DOMAIN stations'[st] /\ stations'[st][k] = stations[st][k])
OnlyCollectionEmptiesSlot == []CollectNeedsReady /\ [][LeavesOnlyCollected]_vars
\* Grill slot 0 is free again (its ready job was collected) while the job in
\* slot 1, not ready, is still there.
UnreadyJobLeftBehind ==
  /\ 0 \notin DOMAIN stations["grill"]
  /\ 1 \in DOMAIN stations["grill"]
  /\ ~stations["grill"][1].isReady

\* ------------------------------------------------------------------ C28
\* C28: a step that starts a job puts it into the lowest-numbered slot of the
\* station that was free before the step, one job per step; and
\* handleCookingAction with a tool the active station does not allow fails
\* and starts no job. Checked on the station manager driven directly.
NewJobInLowestFreeSlot ==
  \/ UNCHANGED stations
  \/ \A st \in StationIds :
       LET new == (DOMAIN stations'[st]) \ (DOMAIN stations[st]) IN
       /\ Cardinality(new) <= 1
       /\ \A k \in new :
             /\ \A j \in 0..(k - 1) : j \in DOMAIN stations[st]
             /\ stations'[st][k].action \in StationDef[st].allowedActions
NotPermittedStartsNoJob ==
  \A st \in StationIds : \A action \in Tools \ StationDef[st].allowedActions :
     \A d \in KitchenPool : \A ingredient \in RequiredIds(d) :
        LET h == handleCookingAction(stations, cookTimers, st, d, action, ingredient)
        IN ~h.ok /\ h.stations = stations /\ h.cookTimers = cookTimers
LowestFreeSlotTaken == []NotPermittedStartsNoJob /\ [][NewJobInLowestFreeSlot]_vars
\* Grill slot 0 holds a job younger than the job in slot 1: slot 0 was
\* collected and then taken again while slot 1 stayed occupied.
SlotZeroRefilled ==
  /\ {0, 1} \subseteq DOMAIN stations["grill"]
  /\ stations["grill"][0].elapsed < stations["grill"][1].elapsed

\* ------------------------------------------------------------------ C29
\* C29: at most maxActiveOrders (5) orders are live at any time, none of them
\* terminal; and with that many live orders neither Start / Resume nor the
\* spawn interval creates an order: the orders, the id counter, the order
\* timers and the scores are as before.
LiveWithinMax ==
  /\ Len(activeOrders) <= maxActiveOrders
  /\ \A i \in 1..Len(activeOrders) : ~activeOrders[i].isComplete
NoSpawnAtCapacity ==
  Len(activeOrders) >= maxActiveOrders =>
     /\ nextId' = nextId
     /\ LiveIds' \subseteq LiveIds
     /\ (ClickStart(SpawnPool, CapacityOrders) \/ SpawnTimerFire(SpawnPool, CapacityOrders))
           => UNCHANGED orderVars
LiveOrdersCapped == []LiveWithinMax /\ [][NoSpawnAtCapacity]_vars
\* Five orders are live, all spawned before the last Tick, and the spawn
\* interval has just been served or re-armed: that spawn found the board full
\* (a sixth id was still to be had).
SpawnRefusedAtFive ==
  /\ Len(activeOrders) = maxActiveOrders
  /\ \A i \in 1..Len(activeOrders) : activeOrders[i].elapsed > 0
  /\ spawnTimer = 0
  /\ nextId <= CapacityOrders

\* ------------------------------------------------------------------ C30
\* C30: a selection (number key or click) of a live order leaves that order
\* the only active one and changes nothing else of any order (its countdown
\* included), no dish, no station slot, no cooking timeout, no score and no
\* record of a finished order; a number beyond the list or a click on a
\* finished order changes nothing at all.
OnlySelectionChanged ==
  /\ dishes' = dishes
  /\ stations' = stations
  /\ cookTimers' = cookTimers
  /\ totalScore' = totalScore
  /\ ordersCompleted' = ordersCompleted
  /\ perfectOrders' = perfectOrders
  /\ completedOrders' = completedOrders
  /\ nextId' = nextId
  /\ orderTimers' = orderTimers
  /\ UNCHANGED runVars
  /\ Len(activeOrders') = Len(activeOrders)
  /\ \A i \in 1..Len(activeOrders) :
        activeOrders'[i] = [activeOrders[i] EXCEPT !.isActive = activeOrders'[i].isActive]
OnlyActive(id) ==
  \A i \in 1..Len(activeOrders') : activeOrders'[i].isActive <=> (activeOrders'[i].id = id)
SelectIsNonDestructive ==
  [][/\ \A n \in 1..(SelectOrders + 1) :
          KeyDigit(n) =>
             IF n <= Len(activeOrders)
             THEN OnlySelectionChanged /\ OnlyActive(activeOrders[n].id)
             ELSE UNCHANGED vars
     /\ \A id \in 1..SelectOrders :
          ClickOrder(id) =>
             IF id \in LiveIds
             THEN OnlySelectionChanged /\ OnlyActive(id)
             ELSE UNCHANGED vars]_vars
\* Two orders are live and the second is the active one, while the salad has
\* its chicken added and grilling in a slot of the grill.
SecondOrderActiveWhileGrilling ==
  /\ Len(activeOrders) = 2
  /\ ~activeOrders[1].isActive
  /\ activeOrders[2].isActive
  /\ activeOrders[1].elapsed > 0
  /\ "chicken_breast" \in dishes["caesar_salad"].currentIngredients
  /\ stations["grill"] # EmptyMap

\* ------------------------------------------------------------------ C31
\* C31: a completeOrder call that names an order that is not the active
\* order (pending, finished or never spawned) changes nothing.
CompleteNeedsActiveOrder ==
  [][\A id \in 1..(ApiOrders + 1) : \A dishValid \in BOOLEAN :
       (/\ ApiCompleteOrder(id, dishValid)
        /\ \/ OrderIndex(activeOrders, id) = 0
           \/ ~activeOrders[OrderIndex(activeOrders, id)].isActive)
          => UNCHANGED vars]_vars

\* ------------------------------------------------------------------ C32
\* C32: a step that records an order as failed finds it live, with no record
\* yet (not served before) and with remaining time 0.
ExpiredOnlyAtZero ==
  [][\A id \in 1..MaxOrders :
       ("failed" \in RatingOf(id)' /\ "failed" \notin RatingOf(id)) =>
          /\ id \in LiveIds
          /\ RatingOf(id) = {}
          /\ getRemainingTime(activeOrders[OrderIndex(activeOrders, id)]) = 0]_vars
\* One order has expired; another was served and its countdown callback is
\* still pending.
ServedWithCountdownPending ==
  /\ \E i \in 1..Len(completedOrders) : completedOrders[i].rating = "failed"
  /\ \E j \in 1..Len(completedOrders) :
        /\ completedOrders[j].rating \in ServedRatings
        /\ completedOrders[j].id \in orderTimers

\* ------------------------------------------------------------------ C33
\* C33: a setActiveDish call that fails, because the dish id or the station
\* it names or defaults to is unknown, changes nothing.
FailedSetActiveDishChangesNothing ==
  [][\A d \in ApiDishes : \A stationId \in ApiStations :
       (/\ ApiSetActiveDish(d, stationId)
        /\ \/ d \notin DishIds
           \/ (IF stationId # None THEN stationId ELSE DishDef[d].station) \notin StationIds)
          => UNCHANGED vars]_vars

\* ------------------------------------------------------------------ C34
\* C34: at the step in which the tool of a timed prep step (a step with a
\* cooking time) is applied to a required ingredient, no time has passed
\* since, so the ingredient is not ready after that step.
TimedStepNotReadyAtOnce ==
  [][\A d \in DishIds : \A i \in 1..Len(DishDef[d].ingredients) :
       LET ing == DishDef[d].ingredients[i] IN
       \A j \in 1..Len(ing.prepSteps) :
          (/\ ing.required
           /\ ing.prepSteps[j].time > 0
           /\ ing.id \in dishes[d].currentIngredients
           /\ ing.id \in dishes'[d].currentIngredients
           /\ dishes[d].ingredientStates[ing.id].prepStepsCompleted = j - 1
           /\ dishes'[d].ingredientStates[ing.id].prepStepsCompleted = j)
             => ~dishes'[d].ingredientStates[ing.id].isReady]_vars

\* ------------------------------------------------------------------ C35
\* C35: a step that completes a prep step naming a station other than prep,
\* while that station has a free slot, puts a job for the ingredient with the
\* step's cooking time into a slot of that station.
StationStepStartsJob ==
  [][\A d \in DishIds : \A i \in 1..Len(DishDef[d].ingredients) :
       LET ing == DishDef[d].ingredients[i] IN
       \A j \in 1..Len(ing.prepSteps) :
          LET st == ing.prepSteps[j].station IN
          (/\ st \in StationIds \ {"prep"}
           /\ Cardinality(DOMAIN stations[st]) < StationDef[st].cookingSlots
           /\ ing.id \in dishes[d].currentIngredients
           /\ ing.id \in dishes'[d].currentIngredients
           /\ dishes[d].ingredientStates[ing.id].prepStepsCompleted = j - 1
           /\ dishes'[d].ingredientStates[ing.id].prepStepsCompleted = j)
             => \E k \in (DOMAIN stations'[st]) \ (DOMAIN stations[st]) :
                   /\ stations'[st][k].ingredient = ing.id
                   /\ stations'[st][k].cookingTime = ing.prepSteps[j].time]_vars

\* ------------------------------------------------------------------ C36
\* C36: when the ready jobs are collected, an ingredient of a dish becomes
\* ready only if one of the collected jobs cooked that ingredient and was
\* submitted while that dish was the current dish.
RetrieveMarksOwnDish ==
  [][KeyEnter =>
       \A d \in DishIds : \A id \in dishes[d].currentIngredients :
          (/\ ~dishes[d].ingredientStates[id].isReady
           /\ id \in dishes'[d].currentIngredients
           /\ dishes'[d].ingredientStates[id].isReady)
             => \E p \in getReadyItems(stations) :
                   /\ stations[p[1]][p[2]].ingredient = id
                   /\ stations[p[1]][p[2]].forDish = d]_vars

\* ------------------------------------------------------------------ C37
\* C37: in every state, a job that is ready has been in its slot for at
\* least its cooking time.
ReadyOnlyAfterCookingTime ==
  \A st \in StationIds : \A k \in DOMAIN stations[st] :
     stations[st][k].isReady => stations[st][k].elapsed >= stations[st][k].cookingTime
\* Grill slot 0 was collected and taken again: its job has just started and
\* is not ready, while the older job in slot 1 has cooked for its full time.
YoungJobInReusedSlot ==
  /\ {0, 1} \subseteq DOMAIN stations["grill"]
  /\ stations["grill"][0].elapsed = 0
  /\ ~stations["grill"][0].isReady
  /\ stations["grill"][1].elapsed >= stations["grill"][1].cookingTime

\* ------------------------------------------------------------------ C38
\* C38: after the Reset button there is no live and no finished order, score
\* and counters are 0, every dish is as constructed, no station is active
\* and no station slot holds a job.
ResetRestoresInitialState ==
  [][ClickReset =>
       /\ activeOrders' = << >>
       /\ completedOrders' = << >>
       /\ totalScore' = 0
       /\ ordersCompleted' = 0
       /\ perfectOrders' = 0
       /\ \A d \in DishIds : dishes'[d] = FreshDish
       /\ activeStation' = None
       /\ \A st \in StationIds : stations'[st] = EmptyMap]_vars

\* ------------------------------------------------------------------ C39
\* C39: whenever the dish of the selected order lacks only its last final
\* step, some key press performs that step and makes the dish complete.
LastFinalStepHasKey ==
  LET a == getActiveOrder(activeOrders) IN
  (/\ isListening
   /\ a # 0
   /\ dishes[activeOrders[a].dishId].finalStepsProgress
         = Len(DishDef[activeOrders[a].dishId].finalSteps) - 1)
     => ENABLED (/\ \/ \E key \in AllKeys : KeyDish(key)
                    \/ KeySpace
                    \/ KeyEscape
                 /\ \E d \in DishIds : dishes'[d].isComplete)
====
